---- MODULE Spec2Model ----
(***************************************************************************)
(* grizzled/decorators.py: the decorators deprecated(since, message) and   *)
(* abstract.  The model holds the function objects being decorated (their  *)
(* __name__, __doc__ and __dict__), the wrappers the decorators return,    *)
(* the threads that invoke wrappers statement by statement, and the        *)
(* warning channel warnings.warn() hands notices to.                       *)
(***************************************************************************)
EXTENDS Integers, Sequences, FiniteSets, TLC

\* ---------------------------------------------------------------- bounds
MaxWrappers == 1    \* decorations applied
MaxCalls    == 2    \* invocations started, all wrappers together

\* ---------------------------------------------------------------- values
\* Python's None is the empty tuple, any other value v is <<v>>.
None    == <<>>
Some(v) == <<v>>

Funcs   == {"f", "foo"}          \* the function objects that get decorated
Threads == {1, 2}                \* the threads that invoke wrappers
NewNames == {"g"}               \* names a function object is renamed to
NewDocs == {Some("New doc.")}    \* documentation texts assigned later
Sinces  == {None, Some("1.2")}
Messages == {None, Some(""), Some("Use g instead.")}
AttrKeys == {"tag"}
ArgLists == {<<>>, <<5>>}       \* positional argument lists of a call

\* def f(a): return a * 2        def foo(self): pass
\* The outcome of calling the original function object fn on args.
Returned(v)    == [kind |-> "return", value |-> v, exc |-> "", msg |-> ""]
Raised(e, m)   == [kind |-> "raise", value |-> None, exc |-> e, msg |-> m]
Body(fn, args) ==
    IF Len(args) # 1
    THEN Raised("TypeError", "takes exactly 1 argument")
    ELSE IF fn = "f" THEN Returned(Some(args[1] * 2)) ELSE Returned(None)

\* `if message:` - None and the empty string are false.
Truthy(m) == m # None /\ m[1] # ""

\* Mutant: the extra message is appended whenever it is not None.
DeprecatedBufNoneTest(name, since, message) ==
    LET base == IF since = None
                THEN "Method " \o name \o " is deprecated."
                ELSE "Method " \o name \o " has been deprecated since version "
                     \o since[1] \o "."
    IN  IF message # None THEN base \o " " \o message[1] ELSE base

\* decorator(func), the composition of buf.
DeprecatedBuf(name, since, message) ==
    LET base == IF since = None
                THEN "Method " \o name \o " is deprecated."
                ELSE "Method " \o name \o " has been deprecated since version "
                     \o since[1] \o "."
    IN  IF Truthy(message) THEN base \o " " \o message[1] ELSE base

\* 'Missing required %s() method' % func.__name__
AbstractMessage(name) == "Missing required " \o name \o "() method"

\* ---------------------------------------------------------------- state
VARIABLES
    funcName,   \* funcName[fn]: fn.__name__
    funcDoc,    \* funcDoc[fn]: fn.__doc__
    heap,       \* heap[d]: the keys of dict object d
    wrappers,   \* the wrappers created so far, in order of creation
    pc,         \* pc[t]: "idle", "wrapper", "body" or "done"
    ip,         \* ip[t]: index of the wrapper statement t executes next
    cur,        \* cur[t]: index of the wrapper t is invoking (0: none)
    args,       \* args[t]: the argument list of t's invocation
    outcome,    \* outcome[t]: what t's invocation returned or raised
    noticed,    \* noticed[t]: the notices t's invocation has emitted
    channel,    \* the notices handed to warnings.warn, in order
    started,    \* started[w]: invocations of wrapper w started
    bodyRuns    \* bodyRuns[w]: times wrapper w ran the original's body

vars == <<funcName, funcDoc, heap, wrappers, pc, ip, cur, args, outcome,
          noticed, channel, started, bodyRuns>>

objVars    == <<funcName, funcDoc, heap, wrappers>>
threadVars == <<pc, ip, cur, args, outcome, noticed>>
countVars  == <<channel, started, bodyRuns>>

WrapperIds == 1 .. MaxWrappers
Created    == DOMAIN wrappers

\* Dict objects: every function object and every wrapper is created with a
\* dict of its own.
FuncDict(fn)   == "dict of " \o fn
WrapperDict(w) == "dict of wrapper " \o ToString(w)
DictIds == {FuncDict(fn) : fn \in Funcs} \cup {WrapperDict(w) : w \in WrapperIds}

NoOutcome == [kind |-> "none", value |-> None, exc |-> "", msg |-> ""]

Init ==
    /\ funcName = [fn \in Funcs |-> fn]
    /\ funcDoc  = [fn \in Funcs |-> IF fn = "f" THEN Some("Doubles a.") ELSE None]
    /\ heap     = [d \in DictIds |-> {}]
    /\ wrappers = <<>>
    /\ pc       = [t \in Threads |-> "idle"]
    /\ ip       = [t \in Threads |-> 0]
    /\ cur      = [t \in Threads |-> 0]
    /\ args     = [t \in Threads |-> <<>>]
    /\ outcome  = [t \in Threads |-> NoOutcome]
    /\ noticed  = [t \in Threads |-> <<>>]
    /\ channel  = <<>>
    /\ started  = [w \in WrapperIds |-> 0]
    /\ bodyRuns = [w \in WrapperIds |-> 0]

\* ------------------------------------------------------------ decoration
\* Mutant: the name is not copied; the wrapper keeps its own name.
NameAssignForgotten(fn) == "wrapper"
\* Mutant: the dict is not assigned; the wrapper keeps its own dict.
DictAssignOwn(w, fn) == WrapperDict(w)

\* wrapper.__name__ = func.__name__
NameAssign(fn) == funcName[fn]
\* wrapper.__dict__ = func.__dict__ : the wrapper refers to func's dict.
DictAssign(w, fn) == FuncDict(fn)
\* wrapper.__doc__ = func.__doc__
DocAssign(fn) == funcDoc[fn]

\* deprecated(since, message)(fn), creating wrapper number w.  The closure of
\* wrapper holds buf and func; since and message are the arguments of the
\* enclosing deprecated() call.
Decorator(w, fn, since, message) ==
    [kind |-> "deprecated", func |-> fn,
     since |-> since, message |-> message,
     buf  |-> DeprecatedBuf(funcName[fn], since, message),
     name |-> NameAssign(fn), dict |-> DictAssign(w, fn), doc |-> DocAssign(fn)]

\* abstract(fn), creating wrapper number w.  The closure of wrapper holds
\* func only: abstract takes no since or message and composes no buf.
Abstract(w, fn) ==
    [kind |-> "abstract", func |-> fn,
     since |-> None, message |-> None, buf |-> "",
     name |-> NameAssign(fn), dict |-> DictAssign(w, fn), doc |-> DocAssign(fn)]

DecorateDeprecated(fn, since, message) ==
    /\ Len(wrappers) < MaxWrappers
    /\ wrappers' = Append(wrappers, Decorator(Len(wrappers) + 1, fn, since, message))
    /\ UNCHANGED <<funcName, funcDoc, heap, threadVars, countVars>>

DecorateAbstract(fn) ==
    /\ Len(wrappers) < MaxWrappers
    /\ wrappers' = Append(wrappers, Abstract(Len(wrappers) + 1, fn))
    /\ UNCHANGED <<funcName, funcDoc, heap, threadVars, countVars>>

\* ------------------------------------------------------- attribute edits
\* wrapper.__name__ and wrapper.__doc__ as introspection reads them.
WrapperName(w) == wrappers[w].name
WrapperDoc(w)  == wrappers[w].doc
\* obj.__dict__ of a function object or of a wrapper.
FuncAttrs(fn)   == heap[FuncDict(fn)]
WrapperAttrs(w) == heap[wrappers[w].dict]

\* fn.__name__ = n
Rename(fn, n) ==
    /\ n # funcName[fn]
    /\ funcName' = [funcName EXCEPT ![fn] = n]
    /\ UNCHANGED <<funcDoc, heap, wrappers, threadVars, countVars>>

\* fn.__doc__ = d
SetDoc(fn, d) ==
    /\ d # funcDoc[fn]
    /\ funcDoc' = [funcDoc EXCEPT ![fn] = d]
    /\ UNCHANGED <<funcName, heap, wrappers, threadVars, countVars>>

\* setattr / delattr through a dict object d.
Toggle(d, k) ==
    /\ heap' = [heap EXCEPT ![d] = IF k \in @ THEN @ \ {k} ELSE @ \cup {k}]
    /\ UNCHANGED <<funcName, funcDoc, wrappers, threadVars, countVars>>

\* setattr(fn, k, ...) or delattr(fn, k) on the original
EditFuncAttr(fn, k) == Toggle(FuncDict(fn), k)
\* setattr(wrapper, k, ...) or delattr(wrapper, k) on the wrapper
EditWrapperAttr(w, k) == w \in Created /\ Toggle(wrappers[w].dict, k)

\* ------------------------------------------------------------ invocation
\* Mutants: a wrapper that never warns, one that warns after the call, and
\* an abstract wrapper that runs the body before raising.
DeprecatedWrapperSilent     == <<"call">>
DeprecatedWrapperWarnsAfter == <<"call", "warn">>
AbstractWrapperRunsBody     == <<"call", "raise">>

\* The statements of the two wrapper bodies.
DeprecatedWrapper == <<"warn", "call">>
AbstractWrapper   == <<"raise">>
Code(w) == IF wrappers[w].kind = "deprecated"
           THEN DeprecatedWrapper ELSE AbstractWrapper
Stmt(t) == IF pc[t] = "wrapper" /\ ip[t] <= Len(Code(cur[t]))
           THEN Code(cur[t])[ip[t]] ELSE "end"
\* Where t stands after its current statement completed normally.
After(t) == IF ip[t] + 1 > Len(Code(cur[t])) THEN "done" ELSE "wrapper"

RECURSIVE SumTo(_, _)
SumTo(f, n) == IF n = 0 THEN 0 ELSE f[n] + SumTo(f, n - 1)
TotalStarted == SumTo(started, MaxWrappers)

\* wrapper(*__args, **__kw) is entered by thread t.
Invoke(t, w, a) ==
    /\ pc[t] = "idle"
    /\ w \in Created
    /\ TotalStarted < MaxCalls
    /\ pc' = [pc EXCEPT ![t] = "wrapper"]
    /\ ip' = [ip EXCEPT ![t] = 1]
    /\ cur' = [cur EXCEPT ![t] = w]
    /\ args' = [args EXCEPT ![t] = a]
    /\ outcome' = [outcome EXCEPT ![t] = NoOutcome]
    /\ noticed' = [noticed EXCEPT ![t] = <<>>]
    /\ started' = [started EXCEPT ![w] = @ + 1]
    /\ UNCHANGED <<objVars, channel, bodyRuns>>

\* warnings.warn(buf, category=DeprecationWarning, stacklevel=2)
Notice(w) == [text |-> wrappers[w].buf, category |-> "DeprecationWarning",
              stacklevel |-> 2, by |-> w]
Warn(t) ==
    /\ Stmt(t) = "warn"
    /\ channel' = Append(channel, Notice(cur[t]))
    /\ noticed' = [noticed EXCEPT ![t] = Append(@, Notice(cur[t]))]
    /\ ip' = [ip EXCEPT ![t] = @ + 1]
    /\ pc' = [pc EXCEPT ![t] = After(t)]
    /\ UNCHANGED <<objVars, cur, args, outcome, started, bodyRuns>>

\* Mutant: the arguments are kept in a slot all invocations share; the
\* original receives those of the lowest thread inside the body.
ForwardShared(a) ==
    args[CHOOSE t \in Threads :
            pc[t] = "body" /\ \A u \in Threads : pc[u] = "body" => t <= u]
\* Mutants: the result of the original is dropped (no return); a failure of
\* the original is caught and None returned.
ReturnStmtDiscard(o) == IF o.kind = "return" THEN Returned(None) ELSE o
ReturnStmtSwallow(o) == IF o.kind = "raise" THEN Returned(None) ELSE o

\* func(*__args, **__kw): the arguments the original receives.
Forward(a) == a
\* return func(...): what the wrapper's caller gets for the original's outcome.
ReturnStmt(o) == o

\* The call of the original: its body starts.
Call(t) ==
    /\ Stmt(t) = "call"
    /\ pc' = [pc EXCEPT ![t] = "body"]
    /\ bodyRuns' = [bodyRuns EXCEPT ![cur[t]] = @ + 1]
    /\ UNCHANGED <<objVars, ip, cur, args, outcome, noticed, channel, started>>

\* The original's body ends; its result or failure leaves the wrapper.
BodyEnd(t) ==
    /\ pc[t] = "body"
    /\ outcome' = [outcome EXCEPT ![t] =
                      ReturnStmt(Body(wrappers[cur[t]].func, Forward(args[t])))]
    /\ pc' = [pc EXCEPT ![t] = "done"]
    /\ UNCHANGED <<objVars, ip, cur, args, noticed, countVars>>

\* raise NotImplementedError('Missing required %s() method' % func.__name__)
Raise(t) ==
    /\ Stmt(t) = "raise"
    /\ outcome' = [outcome EXCEPT ![t] =
          Raised("NotImplementedError",
                 AbstractMessage(funcName[wrappers[cur[t]].func]))]
    /\ pc' = [pc EXCEPT ![t] = "done"]
    /\ UNCHANGED <<objVars, ip, cur, args, noticed, countVars>>

\* The caller of the wrapper takes the result or failure; t is free again.
Complete(t) ==
    /\ pc[t] = "done"
    /\ pc' = [pc EXCEPT ![t] = "idle"]
    /\ ip' = [ip EXCEPT ![t] = 0]
    /\ cur' = [cur EXCEPT ![t] = 0]
    /\ args' = [args EXCEPT ![t] = <<>>]
    /\ outcome' = [outcome EXCEPT ![t] = NoOutcome]
    /\ noticed' = [noticed EXCEPT ![t] = <<>>]
    /\ UNCHANGED <<objVars, countVars>>

Next ==
    \/ \E fn \in Funcs, s \in Sinces, m \in Messages : DecorateDeprecated(fn, s, m)
    \/ \E fn \in Funcs : DecorateAbstract(fn)
    \/ \E fn \in Funcs, n \in NewNames : Rename(fn, n)
    \/ \E fn \in Funcs, d \in NewDocs : SetDoc(fn, d)
    \/ \E fn \in Funcs, k \in AttrKeys : EditFuncAttr(fn, k)
    \/ \E w \in WrapperIds, k \in AttrKeys : EditWrapperAttr(w, k)
    \/ \E t \in Threads, w \in WrapperIds, a \in ArgLists : Invoke(t, w, a)
    \/ \E t \in Threads : Warn(t)
    \/ \E t \in Threads : Call(t)
    \/ \E t \in Threads : BodyEnd(t)
    \/ \E t \in Threads : Raise(t)
    \/ \E t \in Threads : Complete(t)

Spec == Init /\ [][Next]_vars

\* Decoration, renaming and invocation: the behaviours of calls.
NextCalls ==
    \/ \E fn \in Funcs, s \in Sinces, m \in Messages : DecorateDeprecated(fn, s, m)
    \/ \E fn \in Funcs : DecorateAbstract(fn)
    \/ \E fn \in Funcs, n \in NewNames : Rename(fn, n)
    \/ \E t \in Threads, w \in WrapperIds, a \in ArgLists : Invoke(t, w, a)
    \/ \E t \in Threads : Warn(t)
    \/ \E t \in Threads : Call(t)
    \/ \E t \in Threads : BodyEnd(t)
    \/ \E t \in Threads : Raise(t)
    \/ \E t \in Threads : Complete(t)

SpecCalls == Init /\ [][NextCalls]_vars

\* Decoration and attribute edits: the behaviours of introspection.
NextIdentity ==
    \/ \E fn \in Funcs, s \in Sinces, m \in Messages : DecorateDeprecated(fn, s, m)
    \/ \E fn \in Funcs : DecorateAbstract(fn)
    \/ \E fn \in Funcs, n \in NewNames : Rename(fn, n)
    \/ \E fn \in Funcs, d \in NewDocs : SetDoc(fn, d)
    \/ \E fn \in Funcs, k \in AttrKeys : EditFuncAttr(fn, k)
    \/ \E w \in WrapperIds, k \in AttrKeys : EditWrapperAttr(w, k)

SpecIdentity == Init /\ [][NextIdentity]_vars

TypeOK ==
    /\ DOMAIN funcName = Funcs
    /\ Len(wrappers) <= MaxWrappers
    /\ \A t \in Threads : pc[t] \in {"idle", "wrapper", "body", "done"}
    /\ \A t \in Threads : (pc[t] = "idle") = (cur[t] = 0)

\* ================================================================ claims
\* The wrapper thread t is invoking, and what the original does on t's
\* arguments when invoked directly.
W(t)      == wrappers[cur[t]]
Direct(t) == Body(W(t).func, args[t])
Done(t, kind) == pc[t] = "done" /\ W(t).kind = kind
NoticesBy(w) == Cardinality({i \in DOMAIN channel : channel[i].by = w})

\* C1: whenever the original returns a value on the arguments A, the
\* deprecated wrapper invoked with A returns that same value, and exactly one
\* notice, of category DeprecationWarning, was emitted during the invocation.
C1_SameResultOneNotice ==
    \A t \in Threads :
        (Done(t, "deprecated") /\ Direct(t).kind = "return") =>
            /\ outcome[t] = Direct(t)
            /\ Len(noticed[t]) = 1
            /\ noticed[t][1].category = "DeprecationWarning"

\* C1 witness: f(5) through a deprecated wrapper has returned 10 with one notice.
C1_Witness ==
    \E t \in Threads :
        /\ Done(t, "deprecated") /\ W(t).func = "f" /\ args[t] = <<5>>
        /\ outcome[t].kind = "return" /\ outcome[t].value = Some(10)
        /\ Len(noticed[t]) = 1

\* The text the specification states for a notice: no "Method " prefix.
SpecText(name, since, message) ==
    LET base == IF since = None
                THEN name \o " is deprecated."
                ELSE name \o " has been deprecated since version " \o since[1] \o "."
    IN  IF message # None /\ message[1] # "" THEN base \o " " \o message[1] ELSE base

\* The text of the amended claim: the same sentences, each starting "Method ".
AmendedText(name, since, message) == "Method " \o SpecText(name, since, message)

\* C2 as stated: every notice handed to the channel reads "<name> is
\* deprecated." or "<name> has been deprecated since version <v>.", followed
\* by a space and the extra message when that is non-empty.
C2_TextAsStated ==
    \A i \in DOMAIN channel :
        LET w == wrappers[channel[i].by]
        IN  channel[i].text = SpecText(w.name, w.since, w.message)

\* C2 amended: every notice reads "Method <name> is deprecated." or "Method
\* <name> has been deprecated since version <v>.", followed by a space and the
\* extra message when that is non-empty; <name> is the original's name when
\* it was decorated.
C2_TextWithMethodPrefix ==
    \A i \in DOMAIN channel :
        LET w == wrappers[channel[i].by]
        IN  /\ channel[i].text = AmendedText(w.name, w.since, w.message)
            /\ (w.name = "f" /\ w.since = None /\ ~Truthy(w.message))
                  => channel[i].text = "Method f is deprecated."
            /\ (w.name = "f" /\ w.since = Some("1.2") /\ w.message = Some("Use g instead."))
                  => channel[i].text =
                        "Method f has been deprecated since version 1.2. Use g instead."

\* C2 witness: the notice of deprecated(since="1.2", message="Use g instead.")(f).
C2_Witness ==
    \E i \in DOMAIN channel :
        /\ wrappers[channel[i].by].since = Some("1.2")
        /\ channel[i].text =
              "Method f has been deprecated since version 1.2. Use g instead."

\* No abstract wrapper has run the original's body.
AbstractBodyNeverRuns ==
    \A w \in Created : wrappers[w].kind = "abstract" => bodyRuns[w] = 0
\* The step that ends an abstract wrapper's statement: a raise of
\* NotImplementedError naming the original's __name__ as it then is.
AbstractRaiseStep ==
    \A t \in Threads :
        (pc[t] = "wrapper" /\ W(t).kind = "abstract" /\ pc'[t] # "wrapper") =>
            /\ pc'[t] = "done"
            /\ outcome'[t].kind = "raise"
            /\ outcome'[t].exc = "NotImplementedError"
            /\ outcome'[t].msg =
                  "Missing required " \o funcName[W(t).func] \o "() method"

\* C3: every invocation of an abstract wrapper ends raising
\* NotImplementedError with the message "Missing required <name>() method",
\* <name> being the original's __name__ as the raise reads it, and no
\* abstract wrapper ever runs the original's body.
C3_AbstractAlwaysRaises == []AbstractBodyNeverRuns /\ [][AbstractRaiseStep]_vars

\* C3 witness: a second invocation of abstract(foo) has raised
\* "Missing required foo() method" with the body never run.
C3_Witness ==
    \E t \in Threads :
        /\ Done(t, "abstract") /\ started[cur[t]] = 2 /\ bodyRuns[cur[t]] = 0
        /\ outcome[t].exc = "NotImplementedError"
        /\ outcome[t].msg = "Missing required foo() method"

\* The invocations of wrapper w that have not reached the warn statement.
NotYetWarned(w) ==
    Cardinality({t \in Threads : cur[t] = w /\ pc[t] = "wrapper" /\ noticed[t] = <<>>})

\* C4: for every deprecated wrapper, the notices it has handed to the
\* channel number the invocations started less those that have not reached
\* the warn statement yet; with no invocation in flight, N invocations have
\* handed over N notices.
C4_NoticePerInvocation ==
    \A w \in Created :
        wrappers[w].kind = "deprecated" =>
            NoticesBy(w) = started[w] - NotYetWarned(w)

\* C4 witness: a wrapper invoked twice, nothing in flight, two equal notices.
C4_Witness ==
    \E w \in Created :
        /\ wrappers[w].kind = "deprecated" /\ started[w] = 2 /\ NoticesBy(w) = 2
        /\ \A t \in Threads : pc[t] = "idle"
        /\ channel[1].text = channel[2].text

\* C5: while the original's body of an invocation of a deprecated wrapper
\* runs, and after it, the notice of that invocation has been emitted.
C5_NoticeBeforeBody ==
    \A t \in Threads :
        (pc[t] \in {"body", "done"} /\ W(t).kind = "deprecated") =>
            noticed[t] # <<>>

\* C5 witness: an invocation inside the original's body, its notice emitted.
C5_Witness ==
    \E t \in Threads :
        pc[t] = "body" /\ Len(noticed[t]) = 1 /\ bodyRuns[cur[t]] >= 1

\* C6: whenever the original raises on the arguments A, the deprecated
\* wrapper invoked with A raises that same failure, with exactly one notice
\* emitted; and the wrapper raises only when the original does.
C6_FailurePropagates ==
    \A t \in Threads :
        Done(t, "deprecated") =>
            /\ Direct(t).kind = "raise" =>
                  (outcome[t] = Direct(t) /\ Len(noticed[t]) = 1)
            /\ outcome[t].kind = "raise" => Direct(t).kind = "raise"

\* C6 witness: f() through a deprecated wrapper has raised TypeError.
C6_Witness ==
    \E t \in Threads :
        /\ Done(t, "deprecated") /\ args[t] = <<>>
        /\ outcome[t].kind = "raise" /\ outcome[t].exc = "TypeError"
        /\ Len(noticed[t]) = 1

\* The step that returns a wrapping: the new wrapper's name and
\* documentation are the original's at that moment.
DecorationStep ==
    Len(wrappers') > Len(wrappers) =>
        LET w == wrappers'[Len(wrappers')]
        IN  w.name = funcName[w.func] /\ w.doc = funcDoc[w.func]

\* C7: for deprecated(...) and for abstract, when the wrapping is returned
\* the wrapper's name and documentation equal the original's.
C7_IdentityAtWrapping == [][DecorationStep]_vars

\* C7 witness: a wrapping applied after the original was renamed and given
\* new documentation carries the new name and the new documentation.
C7_Witness ==
    \E w \in Created :
        /\ WrapperName(w) = "g" /\ funcName[wrappers[w].func] = "g"
        /\ WrapperDoc(w) = Some("New doc.")

\* C8 as stated: the name in every notice and in every abstract failure
\* message is the original's name captured when the wrapping was applied
\* (the name the wrapper itself carries), whatever the original is renamed to
\* afterwards.
C8_NameFixedAtWrapTime ==
    /\ \A i \in DOMAIN channel :
          LET w == wrappers[channel[i].by]
          IN  channel[i].text = AmendedText(w.name, w.since, w.message)
    /\ \A t \in Threads :
          Done(t, "abstract") =>
              outcome[t].msg = "Missing required " \o W(t).name \o "() method"

\* An invocation that has ended has its own outcome: a deprecated wrapper the
\* original's outcome on the invocation's own arguments and one notice, the
\* wrapper's; an abstract wrapper its NotImplementedError and no notice.
OwnOutcome ==
    \A t \in Threads :
        /\ Done(t, "deprecated") =>
              /\ outcome[t] = Direct(t)
              /\ noticed[t] = <<[text |-> W(t).buf, category |-> "DeprecationWarning",
                                 stacklevel |-> 2, by |-> cur[t]]>>
        /\ Done(t, "abstract") =>
              /\ outcome[t].exc = "NotImplementedError"
              /\ noticed[t] = <<>>
\* A step of thread t inside a wrapper writes neither the wrappers, nor the
\* originals' attributes, nor anything of another thread's invocation.
NoSharedWrites ==
    \A t \in Threads :
        (pc[t] \in {"wrapper", "body"} /\ <<pc[t], ip[t]>>' # <<pc[t], ip[t]>>) =>
            /\ UNCHANGED <<wrappers, funcName, funcDoc, heap>>
            /\ \A u \in Threads \ {t} :
                  UNCHANGED <<pc[u], ip[u], cur[u], args[u], outcome[u], noticed[u]>>

SameDict ==
    \A w \in Created :
        /\ wrappers[w].dict = FuncDict(wrappers[w].func)
        /\ WrapperAttrs(w) = FuncAttrs(wrappers[w].func)
\* No step changes the name or the documentation of an existing wrapper.
NameAndDocKept ==
    \A w \in Created :
        WrapperName(w)' = WrapperName(w) /\ WrapperDoc(w)' = WrapperDoc(w)

\* C10: the wrapper's attribute dictionary is the original's (every attribute
\* set or removed through either is seen through the other), while the
\* wrapper's name and documentation are copies that no later change of the
\* original's name or documentation alters.
C10_DictAliasedNameCopied == []SameDict /\ [][NameAndDocKept]_vars

\* C10 witness: an attribute present through the wrapper and the original,
\* while the original's name and documentation have moved on from the wrapper's.
C10_Witness ==
    \E w \in Created :
        /\ "tag" \in WrapperAttrs(w) /\ "tag" \in FuncAttrs(wrappers[w].func)
        /\ WrapperName(w) # funcName[wrappers[w].func]
        /\ WrapperDoc(w) # funcDoc[wrappers[w].func]
====
